---------------------------- MODULE Spec2Model ----------------------------
(***************************************************************************)
(* Model of the pages-publisher plugin core:                               *)
(*   - the git publish worker (workerGit.initRepo / workerGit.publish),    *)
(*   - the site service (SiteService.init / loadTheme / saveSite) and the  *)
(*     site form composables that react to it,                             *)
(*   - the Page aggregate (setValues / outputValues, markdown prefix),     *)
(*   - the article service (saveArticle, isValidUrl, getValidUrl, ...),    *)
(*   - fetchAllData (the paginated read of Joplin data),                   *)
(*   - generateSite (init, then outputPages),                              *)
(*   - Page.fields (url, predefined and theme-declared fields),            *)
(*   - useAppWarning (the warnings the site form sets).                    *)
(* Each component has its own specification; the variables of the other    *)
(* components stay at their initial value.                                 *)
(***************************************************************************)
EXTENDS Integers, Sequences, FiniteSets, TLC

VARIABLES
    \* ---- git publish worker ----
    remoteRefs,   \* the remote repository: branch name -> [present, tree]
    remoteHead,   \* the remote's default branch (what a clone checks HEAD out to)
    localRefs,    \* gitdir: local branch name -> [present, tree]
    head,         \* gitdir: branch HEAD points to, "none" before a clone
    index,        \* gitdir: the staging area (set of tracked paths)
    identity,     \* gitdir: config user.name / user.email
    workdir,      \* dir: files of the shadow working tree
    branchCfg,    \* githubInfo.branch: a branch name or "undefined"
    call,         \* per call slot: the request being executed by the worker
    repoReady,    \* the caller's initRepo promise: the last initRepo has resolved
    requests,     \* number of requests received so far
    \* ---- site service and site form ----
    sitePc,       \* SiteService.init: where the constructor's init() stands
    persisted,    \* the site the plugin data repository holds (getSite / saveSite)
    site,         \* SiteService.site
    themeConfig,  \* SiteService.themeConfig: the active theme, "null" when none
    loads,        \* the loadTheme calls in flight, in the order they were made
    settled,      \* the loadTheme call that settled last, with what it left active
    nLoads,       \* number of loadTheme calls made so far
    form,         \* the site form: siteModelRef (themeName, custom), once mounted
    selectedThemeName, \* useSelectTheme: the name shown by the theme select
    modal,        \* the confirmation dialog handleSelect opened, if any
    edits,        \* number of edits and saves made in the form so far
    roundTrip,    \* the last theme switch A -> B (and back), with A's saved values
    \* ---- Page ----
    pagePc,       \* the page: "none", "set" (constructed), "output", "reloaded"
    fieldVars,    \* Page.fieldVars
    supplied,     \* the mapping the last constructor or setValues call was given
    held,         \* fieldVars as they were when outputValues was last called
    output,       \* what outputValues last returned
    pageError,    \* a constructor or setValues call has thrown
    \* ---- article service ----
    artPc,        \* ArticleService.init: "init" until the saved articles are pushed
    articles,     \* ArticleService.articles
    selectedArticles, \* ArticleService.selectedArticles, by noteId
    persistedArticles, \* the articles the plugin data repository holds
    artError,     \* the error the last operation threw, "none" when it returned
    artOps,       \* number of operations on the collection so far
    urlCalls,     \* number of getValidUrl calls so far
    urlBase,      \* the base of the last getValidUrl call
    urlResult,    \* what the last getValidUrl call returned
    sameColl,     \* results for urlBase since the collection last changed
    retained,     \* results for urlBase, each in use when the next call was made
    urlFresh,     \* the collection is as it was when getValidUrl was last called
    \* ---- fetchAllData ----
    fetchPc,      \* "idle", "loop" (at the while test), "awaiting", "returned", "failed"
    query,        \* the caller's query
    page,         \* let page
    hasMore,      \* let hasMore
    result,       \* let result
    fetchLog,     \* the fetchData calls made, each with what it settled with
    fetchReturn,  \* what the call returned, "none" while it has not
    \* ---- generateSite ----
    genPc,        \* "idle", "new", "init", "outputPages", "done", "failed"
    genLog,       \* the steps of the current request, with how each ended
    genReply,     \* what the bridge's caller received: "none", "resolved" or the error
    generations,  \* number of generateSite requests so far
    \* ---- Page.fields ----
    pageName,     \* the name the page is constructed with
    themePages,   \* themeConfig.pages: page name -> declared fields, or "missing"
    fields,       \* Page.fields, "none" before the page is constructed
    \* ---- useAppWarning ----
    warnPc,       \* "none" until useAppWarning has set up its effects, then "watching"
    isModifiedRef, \* the form has unsaved modifications
    isValidRef,   \* the form's fields are filled correctly
    warnings      \* the app's warnings (effect, warning) and the setWarning calls made

gitVars == <<remoteRefs, remoteHead, localRefs, head, index, identity, workdir,
             branchCfg, call, repoReady, requests>>

siteVars == <<sitePc, persisted, site, themeConfig, loads, settled, nLoads, form,
              selectedThemeName, modal, edits, roundTrip>>

pageVars == <<pagePc, fieldVars, supplied, held, output, pageError>>

articleVars == <<artPc, articles, selectedArticles, persistedArticles, artError, artOps,
                 urlCalls, urlBase, urlResult, sameColl, retained, urlFresh>>

fetchVars == <<fetchPc, query, page, hasMore, result, fetchLog, fetchReturn>>

genVars == <<genPc, genLog, genReply, generations>>

fieldsVars == <<pageName, themePages, fields>>

warnVars == <<warnPc, isModifiedRef, isValidRef, warnings>>

vars == <<gitVars, siteVars, pageVars, articleVars, fetchVars, genVars, fieldsVars,
          warnVars>>

nonGitVars == <<siteVars, pageVars, articleVars, fetchVars, genVars, fieldsVars,
    warnVars>>
nonSiteVars == <<gitVars, pageVars, articleVars, fetchVars, genVars, fieldsVars,
    warnVars>>
nonPageVars == <<gitVars, siteVars, articleVars, fetchVars, genVars, fieldsVars,
    warnVars>>
nonArticleVars == <<gitVars, siteVars, pageVars, fetchVars, genVars, fieldsVars,
    warnVars>>
nonFetchVars == <<gitVars, siteVars, pageVars, articleVars, genVars, fieldsVars,
    warnVars>>
nonGenVars == <<gitVars, siteVars, pageVars, articleVars, fetchVars, fieldsVars,
    warnVars>>
nonFieldsVars == <<gitVars, siteVars, pageVars, articleVars, fetchVars, genVars,
    warnVars>>
nonWarnVars == <<gitVars, siteVars, pageVars, articleVars, fetchVars, genVars,
    fieldsVars>>

-----------------------------------------------------------------------------
(* Generic helpers on sequences (strings are sequences of characters).     *)

\* smallest i such that pat occurs in s at position i, 0 when it does not occur
IndexOfSub(s, pat) ==
    LET hits == {i \in 1..(Len(s) - Len(pat) + 1) : SubSeq(s, i, i + Len(pat) - 1) = pat}
    IN IF hits = {} THEN 0 ELSE CHOOSE i \in hits : \A j \in hits : i <= j

\* String.prototype.replace(pat, '') with a string pattern: the first occurrence only
ReplaceFirst(s, pat) ==
    LET i == IndexOfSub(s, pat)
    IN IF i = 0 THEN s ELSE SubSeq(s, 1, i - 1) \o SubSeq(s, i + Len(pat), Len(s))

IsPrefix(p, s) == Len(p) <= Len(s) /\ SubSeq(s, 1, Len(p)) = p

-----------------------------------------------------------------------------
(* ------------------------- git publish worker -------------------------- *)

MaxRequests == 4
MaxNotes == 1
\* requests of a caller that does not wait for the previous one
MaxOverlapRequests == 3

Files == {"a", "b", "c", "d"}
\* listFiles returns paths in sorted order; lodash difference keeps that order
FileOrder == <<"a", "b", "c", "d">>
BranchNames == {"master", "gh-pages"}
Undefined == "undefined"
CallSlots == {1, 2}

\* gitInfo.dir, as a string
Dir == <<"/", "r">>
\* the path of a rendered file, as the caller passes it in `files`
AbsPath(f) == Dir \o <<"/", f>>
\* a path relative to dir, as isomorphic-git lists it
RelPath(f) == <<f>>

NoRef == [present |-> FALSE, tree |-> {}]
RefTo(t) == [present |-> TRUE, tree |-> t]

\* const { branch: branchName = 'master' } = githubInfo
InitBranchName == IF branchCfg = Undefined THEN "master" ELSE branchCfg

\* files.map((path) => path.replace(`${dir}/`, ''))
StripDir(path) == ReplaceFirst(path, Dir \o <<"/">>)

\* listFiles({ ref }): the tree of the commit at ref; without ref, the index
ListFiles(ref) ==
    IF ref = Undefined THEN {RelPath(f) : f \in index}
    ELSE {RelPath(f) : f \in localRefs[ref].tree}

\* difference(filesExisted, files_), in the order of filesExisted
RECURSIVE InOrder(_, _)
InOrder(set, i) ==
    IF i > Len(FileOrder) THEN <<>>
    ELSE (IF RelPath(FileOrder[i]) \in set THEN <<RelPath(FileOrder[i])>> ELSE <<>>)
         \o InOrder(set, i + 1)

DeletedFiles(filesExisted, files) ==
    InOrder(filesExisted \ {StripDir(p) : p \in files}, 1)

\* the branch commit and push act on: ref, or the current branch when ref is undefined
TargetBranch == IF branchCfg = Undefined THEN head ELSE branchCfg

\* the steps that talk to the remote; clone and push are given onMessage / onProgress
NetworkSteps == {"clone", "push"}

IdleCall == [op |-> "none", pc |-> "idle", files |-> {}, deleted |-> <<>>,
             branches |-> {}, steps |-> <<>>, failedAt |-> "none", retry |-> FALSE,
             error |-> "none", outcomes |-> <<>>, tries |-> [s \in NetworkSteps |-> 0],
             notes |-> 0, notedAt |-> {},
             pre |-> [index |-> {}, localRefs |-> [b \in BranchNames |-> NoRef],
                      remoteRefs |-> [b \in BranchNames |-> NoRef]]]

Finished(p) == call[p].pc \in {"idle", "done", "failed", "abandoned"}

GitInit ==
    /\ remoteHead \in BranchNames
    /\ \E other \in {NoRef, RefTo({"b"})} :
         remoteRefs = [b \in BranchNames |->
                         IF b = remoteHead THEN RefTo({"a", "b", "c"}) ELSE other]
    /\ localRefs = [b \in BranchNames |-> NoRef]
    /\ head = "none"
    /\ index = {}
    /\ identity = [name |-> "unset", email |-> "unset"]
    /\ workdir = {}
    /\ branchCfg \in BranchNames \cup {Undefined}
    /\ call = [p \in CallSlots |-> IdleCall]
    /\ repoReady = FALSE
    /\ requests = 0


\* the caller materialises the rendered output on the shadow tree before it calls publish
Materialize(N) == N

\* the steps of publish from staging to push
StagingSteps == {"add", "listFiles", "remove", "commit", "push"}

\* the new request repeats, with the same files, a publish that has just failed
\* after staging began
IsRetry(last, op, files) ==
    /\ op = "publish"
    /\ last.op = "publish"
    /\ last.pc = "failed"
    /\ last.failedAt \in StagingSteps
    /\ last.files = files

Begin(p, op, firstPc, N) ==
    /\ Finished(p)
    /\ requests < MaxRequests
    /\ requests' = requests + 1
    /\ call' = [call EXCEPT ![p] =
                  [IdleCall EXCEPT !.op = op, !.pc = firstPc,
                                   !.files = {AbsPath(f) : f \in N},
                                   !.retry = IsRetry(call[p], op, {AbsPath(f) : f \in N}),
                                   !.pre = [index |-> index, localRefs |-> localRefs,
                                            remoteRefs |-> remoteRefs]]]

\* a step of call p finished: record it and move on; the async function returning is
\* the one result the caller receives
Advance(p, step, nextPc) ==
    call' = [call EXCEPT
               ![p].steps = Append(@, step),
               ![p].pc = nextPc,
               ![p].tries = IF step \in NetworkSteps THEN [@ EXCEPT ![step] = @ + 1] ELSE @,
               ![p].outcomes = IF nextPc = "done" THEN Append(@, "result") ELSE @]

\* ---- initRepo ----

InitRepoRequest(p) ==
    /\ Begin(p, "initRepo", "emptyGitdir", {})
    /\ repoReady' = FALSE
    /\ UNCHANGED <<remoteRefs, remoteHead, localRefs, head, index, identity, workdir,
                   branchCfg>>
    /\ UNCHANGED nonGitVars

\* await fs.promises.emptyDir(gitdir)
InitEmptyGitdir(p) ==
    /\ call[p].pc = "emptyGitdir"
    /\ localRefs' = [b \in BranchNames |-> NoRef]
    /\ head' = "none"
    /\ index' = {}
    /\ identity' = [name |-> "unset", email |-> "unset"]
    /\ Advance(p, "emptyGitdir", "emptyDir")
    /\ UNCHANGED <<remoteRefs, remoteHead, workdir, branchCfg, repoReady, requests>>
    /\ UNCHANGED nonGitVars

\* (mutant) the working tree is left as it is
InitKeepDir(p) ==
    /\ call[p].pc = "emptyDir"
    /\ Advance(p, "emptyDir", "clone")
    /\ UNCHANGED <<remoteRefs, remoteHead, localRefs, head, index, identity, workdir,
                   branchCfg, repoReady, requests>>
    /\ UNCHANGED nonGitVars

\* await fs.promises.emptyDir(dir)
InitEmptyDir(p) ==
    /\ call[p].pc = "emptyDir"
    /\ workdir' = {}
    /\ Advance(p, "emptyDir", "clone")
    /\ UNCHANGED <<remoteRefs, remoteHead, localRefs, head, index, identity, branchCfg,
                   repoReady, requests>>
    /\ UNCHANGED nonGitVars

\* await clone({ depth: 1, noCheckout: true, ... }): the remote's default branch
\* becomes the one local branch and HEAD; nothing is checked out and nothing staged
InitClone(p) ==
    /\ call[p].pc = "clone"
    /\ localRefs' = [localRefs EXCEPT ![remoteHead] = remoteRefs[remoteHead]]
    /\ head' = remoteHead
    /\ Advance(p, "clone", "listBranches")
    /\ UNCHANGED <<remoteRefs, remoteHead, index, identity, workdir, branchCfg, repoReady,
                   requests>>
    /\ UNCHANGED nonGitVars

\* const branches = await listBranches({ fs, dir, gitdir })
InitListBranches(p) ==
    /\ call[p].pc = "listBranches"
    /\ call' = [call EXCEPT ![p].steps = Append(@, "listBranches"),
                            ![p].branches = {b \in BranchNames : localRefs[b].present},
                            ![p].pc = IF localRefs[InitBranchName].present
                                      THEN "setName" ELSE "branch"]
    /\ UNCHANGED <<remoteRefs, remoteHead, localRefs, head, index, identity, workdir,
                   branchCfg, repoReady, requests>>
    /\ UNCHANGED nonGitVars

\* if (!branches.includes(branchName)) await branch({ ref: branchName }): a new
\* branch at the commit of HEAD; HEAD itself stays (with no HEAD, as after another
\* call emptied gitdir, branch rejects)
InitBranch(p) ==
    /\ call[p].pc = "branch"
    /\ InitBranchName \notin call[p].branches
    /\ head \in BranchNames
    /\ localRefs' = [localRefs EXCEPT ![InitBranchName] = localRefs[head]]
    /\ Advance(p, "branch", "setName")
    /\ UNCHANGED <<remoteRefs, remoteHead, head, index, identity, workdir, branchCfg,
                   repoReady, requests>>
    /\ UNCHANGED nonGitVars

\* await setConfig({ path: 'user.name', value: userName })
InitSetName(p) ==
    /\ call[p].pc = "setName"
    /\ identity' = [identity EXCEPT !.name = "userName"]
    /\ Advance(p, "setName", "setEmail")
    /\ UNCHANGED <<remoteRefs, remoteHead, localRefs, head, index, workdir, branchCfg,
                   repoReady, requests>>
    /\ UNCHANGED nonGitVars

\* await setConfig({ path: 'user.email', value: email })
InitSetEmail(p) ==
    /\ call[p].pc = "setEmail"
    /\ identity' = [identity EXCEPT !.email = "email"]
    /\ Advance(p, "setEmail", "done")
    /\ repoReady' = TRUE
    /\ UNCHANGED <<remoteRefs, remoteHead, localRefs, head, index, workdir, branchCfg,
                   requests>>
    /\ UNCHANGED nonGitVars

\* ---- publish ----

PublishRequest(p, N) ==
    /\ repoReady
    /\ Begin(p, "publish", "delay", N)
    /\ workdir' = Materialize(N)
    /\ UNCHANGED <<remoteRefs, remoteHead, localRefs, head, index, identity, branchCfg,
                   repoReady>>
    /\ UNCHANGED nonGitVars

\* (mutant) the delay is awaited after the files have been staged
PublishDelayAfterAdd(p) ==
    /\ call[p].pc = "delay"
    /\ index' = index \cup workdir
    /\ Advance(p, "delay", "listFiles")
    /\ UNCHANGED <<remoteRefs, remoteHead, localRefs, head, identity, workdir, branchCfg,
                   repoReady, requests>>
    /\ UNCHANGED nonGitVars

\* await new Promise((resolve) => setTimeout(resolve, 3000))
PublishDelay(p) ==
    /\ call[p].pc = "delay"
    /\ Advance(p, "delay", "add")
    /\ UNCHANGED <<remoteRefs, remoteHead, localRefs, head, index, identity, workdir,
                   branchCfg, repoReady, requests>>
    /\ UNCHANGED nonGitVars

\* "a 3s delay, so user can terminate": the worker is terminated while it waits
PublishAbandon(p) ==
    /\ call[p].pc = "delay"
    /\ call' = [call EXCEPT ![p].pc = "abandoned"]
    /\ UNCHANGED <<remoteRefs, remoteHead, localRefs, head, index, identity, workdir,
                   branchCfg, repoReady, requests>>
    /\ UNCHANGED nonGitVars

\* await add({ filepath: '.' }): every file of dir is staged; an index entry whose
\* file is gone from dir stays
PublishAdd(p) ==
    /\ call[p].pc = "add"
    /\ index' = index \cup workdir
    /\ Advance(p, "add", "listFiles")
    /\ UNCHANGED <<remoteRefs, remoteHead, localRefs, head, identity, workdir, branchCfg,
                   repoReady, requests>>
    /\ UNCHANGED nonGitVars

\* const filesExisted = await listFiles({ ref: githubInfo.branch }); files_; deletedFiles
PublishListFiles(p) ==
    /\ call[p].pc = "listFiles"
    /\ branchCfg # Undefined => localRefs[branchCfg].present
    /\ call' = [call EXCEPT ![p].steps = Append(@, "listFiles"),
                            ![p].deleted = DeletedFiles(ListFiles(branchCfg), call[p].files),
                            ![p].pc = "remove"]
    /\ UNCHANGED <<remoteRefs, remoteHead, localRefs, head, index, identity, workdir,
                   branchCfg, repoReady, requests>>
    /\ UNCHANGED nonGitVars

\* for (const deletedFile of deletedFiles) await remove({ filepath: deletedFile })
PublishRemove(p) ==
    /\ call[p].pc = "remove"
    /\ call[p].deleted # <<>>
    /\ index' = {f \in index : RelPath(f) # Head(call[p].deleted)}
    /\ call' = [call EXCEPT ![p].steps = Append(@, "remove"),
                            ![p].deleted = Tail(@)]
    /\ UNCHANGED <<remoteRefs, remoteHead, localRefs, head, identity, workdir, branchCfg,
                   repoReady, requests>>
    /\ UNCHANGED nonGitVars

\* await commit({ message: 'test', ref: githubInfo.branch }): the index becomes the
\* tree of a new commit on the branch (with no user.name in the config, as after
\* another call emptied gitdir, commit rejects)
PublishCommit(p) ==
    /\ call[p].pc = "remove"
    /\ call[p].deleted = <<>>
    /\ identity.name # "unset"
    /\ TargetBranch \in BranchNames
    /\ localRefs' = [localRefs EXCEPT ![TargetBranch] = RefTo(index)]
    /\ Advance(p, "commit", "push")
    /\ UNCHANGED <<remoteRefs, remoteHead, head, index, identity, workdir, branchCfg,
                   repoReady, requests>>
    /\ UNCHANGED nonGitVars

\* await push({ ref: githubInfo.branch, remoteRef: githubInfo.branch, ... })
PublishPush(p) ==
    /\ call[p].pc = "push"
    /\ TargetBranch \in BranchNames
    /\ localRefs[TargetBranch].present
    /\ remoteRefs' = [remoteRefs EXCEPT ![TargetBranch] = localRefs[TargetBranch]]
    /\ Advance(p, "push", "done")
    /\ UNCHANGED <<remoteHead, localRefs, head, index, identity, workdir, branchCfg,
                   repoReady, requests>>
    /\ UNCHANGED nonGitVars

\* any awaited file-system, git or network call may reject: the async function ends
\* there with that error and runs no later step
FalliblePcs == {"emptyGitdir", "emptyDir", "clone", "listBranches", "branch", "setName",
                "setEmail", "add", "listFiles", "remove", "push"}

StepAt(p) ==
    IF call[p].pc = "remove" /\ call[p].deleted = <<>> THEN "commit" ELSE call[p].pc

\* what a step can reject with
ErrorsOf(step) == IF step \in NetworkSteps THEN {"AuthError", "NetworkError"} ELSE {"Error"}

\* (mutant) a network step that rejects is called a second time before the call gives up
CallFailsAfterRetry(p) ==
    /\ call[p].pc \in FalliblePcs
    /\ \E e \in ErrorsOf(StepAt(p)) :
         call' = IF StepAt(p) \in NetworkSteps /\ call[p].tries[StepAt(p)] = 0
                 THEN [call EXCEPT ![p].tries[StepAt(p)] = 1]
                 ELSE [call EXCEPT
                         ![p].pc = "failed", ![p].failedAt = StepAt(p), ![p].error = e,
                         ![p].outcomes = Append(@, e),
                         ![p].tries = IF StepAt(p) \in NetworkSteps
                                      THEN [@ EXCEPT ![StepAt(p)] = @ + 1] ELSE @]
    /\ UNCHANGED <<remoteRefs, remoteHead, localRefs, head, index, identity, workdir,
                   branchCfg, repoReady, requests>>
    /\ UNCHANGED nonGitVars

\* no step is wrapped in try/catch: the rejection of the awaited call is the rejection
\* of initRepo / publish, the one error the caller receives
CallFails(p) ==
    /\ call[p].pc \in FalliblePcs
    /\ \E e \in ErrorsOf(StepAt(p)) :
         call' = [call EXCEPT
                    ![p].pc = "failed", ![p].failedAt = StepAt(p), ![p].error = e,
                    ![p].outcomes = Append(@, e),
                    ![p].tries = IF StepAt(p) \in NetworkSteps
                                 THEN [@ EXCEPT ![StepAt(p)] = @ + 1] ELSE @]
    /\ UNCHANGED <<remoteRefs, remoteHead, localRefs, head, index, identity, workdir,
                   branchCfg, repoReady, requests>>
    /\ UNCHANGED nonGitVars

\* (mutant) the worker reports progress whenever a call is in progress
NotifyAnytime(p) ==
    /\ ~Finished(p)
    /\ call[p].notes < MaxNotes
    /\ call' = [call EXCEPT ![p].notes = @ + 1, ![p].notedAt = @ \cup {call[p].pc}]
    /\ UNCHANGED <<remoteRefs, remoteHead, localRefs, head, index, identity, workdir,
                   branchCfg, repoReady, requests>>
    /\ UNCHANGED nonGitVars

\* onMessage / onProgress, called by clone or push while it runs: a message to the host
Notify(p) ==
    /\ call[p].pc \in NetworkSteps
    /\ call[p].notes < MaxNotes
    /\ call' = [call EXCEPT ![p].notes = @ + 1, ![p].notedAt = @ \cup {call[p].pc}]
    /\ UNCHANGED <<remoteRefs, remoteHead, localRefs, head, index, identity, workdir,
                   branchCfg, repoReady, requests>>
    /\ UNCHANGED nonGitVars

NewFileSets == {{"a", "c", "d"}, {"b"}, {"a", "b"}}

\* a step of the call in slot p, once requested
GitWork(p) ==
    \/ InitEmptyGitdir(p)
    \/ InitEmptyDir(p)
    \/ InitClone(p)
    \/ InitListBranches(p)
    \/ InitBranch(p)
    \/ InitSetName(p)
    \/ InitSetEmail(p)
    \/ PublishDelay(p)
    \/ PublishAbandon(p)
    \/ PublishAdd(p)
    \/ PublishListFiles(p)
    \/ PublishRemove(p)
    \/ PublishCommit(p)
    \/ PublishPush(p)
    \/ CallFails(p)
    \/ Notify(p)

GitStep(p) ==
    \/ InitRepoRequest(p)
    \/ \E N \in NewFileSets : PublishRequest(p, N)
    \/ GitWork(p)


\* the worker is never used
GitIdle ==
    /\ remoteHead = "master"
    /\ remoteRefs = [b \in BranchNames |-> NoRef]
    /\ localRefs = [b \in BranchNames |-> NoRef]
    /\ head = "none"
    /\ index = {}
    /\ identity = [name |-> "unset", email |-> "unset"]
    /\ workdir = {}
    /\ branchCfg = Undefined
    /\ call = [p \in CallSlots |-> IdleCall]
    /\ repoReady = FALSE
    /\ requests = 0

-----------------------------------------------------------------------------
(* ------------------- site service and the site form -------------------- *)

MaxLoads == 3
MaxEdits == 2
\* loadTheme calls in flight at a time
MaxPending == 2

DEFAULT_THEME_NAME == "default"
Themes == {"default", "A", "B"}
\* the values a theme's site fields can hold ("empty": the mapping {})
Vals == {"x", "y"}
\* what the user types into the custom fields
TypedVals == {"y"}
Null == "null"

Missing == [present |-> FALSE, val |-> "empty"]
EmptyEntry == [present |-> TRUE, val |-> "empty"]
Entry(v) == [present |-> TRUE, val |-> v]
NoCustom == [t \in Themes |-> Missing]

DEFAULT_SITE == [themeName |-> DEFAULT_THEME_NAME, custom |-> NoCustom]

NullSite == [ready |-> FALSE, themeName |-> "", custom |-> NoCustom]
NoForm == [mounted |-> FALSE, themeName |-> "", custom |-> NoCustom]
NoModal == [open |-> FALSE, themeName |-> "", current |-> ""]
NoTrip == [stage |-> "none", from |-> "", via |-> "", saved |-> Missing]

\* no loadTheme call has settled yet (stale: a call made later has loaded its theme;
\* winner: the theme of the latest call made among those that loaded theirs)
NoLoad ==
    [name |-> "", origin |-> "", current |-> "", state |-> "none",
     activeAtFail |-> Null, activeBefore |-> Null, activeAfter |-> Null,
     reported |-> FALSE, stale |-> FALSE, winner |-> ""]

\* what the plugin data repository may hold when the plugin starts
SavedSites ==
    { [saved |-> FALSE, themeName |-> "", custom |-> NoCustom],
      [saved |-> TRUE, themeName |-> "A", custom |-> [NoCustom EXCEPT !["A"] = Entry("x")]],
      [saved |-> TRUE, themeName |-> "B", custom |-> NoCustom] }

SiteInit ==
    /\ sitePc = "getThemes"
    /\ persisted \in SavedSites
    /\ site = NullSite
    /\ themeConfig = Null
    /\ loads = <<>>
    /\ settled = NoLoad
    /\ nLoads = 0
    /\ form = NoForm
    /\ selectedThemeName = ""
    /\ modal = NoModal
    /\ edits = 0
    /\ roundTrip = NoTrip

\* the site service is never constructed
SiteIdle ==
    /\ sitePc = "getThemes"
    /\ persisted = [saved |-> FALSE, themeName |-> "", custom |-> NoCustom]
    /\ site = NullSite
    /\ themeConfig = Null
    /\ loads = <<>>
    /\ settled = NoLoad
    /\ nLoads = 0
    /\ form = NoForm
    /\ selectedThemeName = ""
    /\ modal = NoModal
    /\ edits = 0
    /\ roundTrip = NoTrip

\* (mutant) custom[themeName] = {} without looking at what is there
ResetCustomOver(custom, themeName) == [custom EXCEPT ![themeName] = EmptyEntry]

\* if (!this.site.value.custom[themeName]) this.site.value.custom[themeName] = {}
EnsureCustom(custom, themeName) ==
    IF custom[themeName].present THEN custom ELSE [custom EXCEPT ![themeName] = EmptyEntry]

Remove(seq, i) == SubSeq(seq, 1, i - 1) \o SubSeq(seq, i + 1, Len(seq))

\* the call loadTheme(themeName) up to its first await: getTheme(themeName) is in flight
NewLoad(themeName, origin, current) ==
    [name |-> themeName, origin |-> origin, current |-> current, state |-> "pending",
     activeAtFail |-> Null, activeBefore |-> Null, activeAfter |-> Null,
     reported |-> FALSE, stale |-> FALSE, winner |-> ""]

\* useCustomFieldModel: watch(themeConfig, (theme, oldTheme) => ...), run on the form f
\* with the site s after themeConfig changed from oldTheme to theme
WatchThemeConfig(f, s, theme, oldTheme) ==
    IF ~f.mounted \/ oldTheme = Null THEN f
    ELSE LET c1 == [f.custom EXCEPT ![theme] =
                        IF s.custom[theme].present THEN s.custom[theme] ELSE EmptyEntry]
             c2 == [c1 EXCEPT ![oldTheme] =
                        IF s.custom[oldTheme].present THEN s.custom[oldTheme] ELSE EmptyEntry]
         IN [f EXCEPT !.custom = c2]

\* the round trip the form has made: A -> B records A's saved values, B -> A closes it
Trip(rt, s, theme, oldTheme) ==
    IF oldTheme = Null \/ theme = oldTheme THEN NoTrip
    ELSE IF rt.stage = "away" /\ rt.via = oldTheme /\ rt.from = theme
         THEN [rt EXCEPT !.stage = "back"]
         ELSE [stage |-> "away", from |-> oldTheme, via |-> theme, saved |-> s.custom[oldTheme]]

\* this.themeConfig.value = theme, with what reacts to it
Activate(theme, s) ==
    /\ themeConfig' = theme
    /\ form' = WatchThemeConfig(form, s, theme, themeConfig)
    /\ roundTrip' = IF form.mounted THEN Trip(roundTrip, s, theme, themeConfig) ELSE roundTrip

\* ---- SiteService.init ----

\* this.themes.value = await this.pluginDataRepository.getThemes()
SiteInitGetThemes ==
    /\ sitePc = "getThemes"
    /\ sitePc' = "getSite"
    /\ UNCHANGED <<persisted, site, themeConfig, loads, settled, nLoads, form,
                   selectedThemeName, modal, edits, roundTrip>>
    /\ UNCHANGED nonSiteVars

\* the repository call of init rejects: init ends there
SiteInitFails ==
    /\ sitePc \in {"getThemes", "getSite"}
    /\ sitePc' = "failed"
    /\ UNCHANGED <<persisted, site, themeConfig, loads, settled, nLoads, form,
                   selectedThemeName, modal, edits, roundTrip>>
    /\ UNCHANGED nonSiteVars

\* this.site.value = { ...DEFAULT_SITE, ...(await getSite()) }; the custom entry of
\* themeName is created when missing; loadTheme(themeName) is called
SiteInitGetSite ==
    /\ sitePc = "getSite"
    /\ LET merged == IF persisted.saved
                     THEN [themeName |-> persisted.themeName, custom |-> persisted.custom]
                     ELSE DEFAULT_SITE
       IN /\ site' = [ready |-> TRUE, themeName |-> merged.themeName,
                      custom |-> EnsureCustom(merged.custom, merged.themeName)]
          /\ loads' = Append(loads, NewLoad(merged.themeName, "init", ""))
          /\ nLoads' = nLoads + 1
          /\ UNCHANGED settled
    /\ sitePc' = "loadTheme"
    /\ UNCHANGED <<persisted, themeConfig, form, selectedThemeName, modal, edits, roundTrip>>
    /\ UNCHANGED nonSiteVars

\* ---- SiteService.loadTheme ----

\* how a settled loadTheme call ends for its caller: init goes on or rejects; the
\* select's .catch(onFail) resets selectedThemeName when loadTheme rejected
Settle(i, threw, end) ==
    /\ settled' = [end EXCEPT !.name = "",
                              !.origin = IF end.state = "loaded" THEN "" ELSE @,
                              !.current = IF end.state = "loaded" THEN "" ELSE @,
                              !.stale = FALSE,
                              !.winner = IF end.state = "loaded" /\ ~loads[i].stale
                                         THEN loads[i].name ELSE settled.winner]
    /\ loads' = Remove([j \in 1..Len(loads) |->
                          IF end.state = "loaded" /\ j < i
                          THEN [loads[j] EXCEPT !.stale = TRUE] ELSE loads[j]], i)
    /\ UNCHANGED nLoads
    /\ sitePc' = IF loads[i].origin = "init" THEN (IF threw THEN "failed" ELSE "done")
                 ELSE sitePc
    /\ selectedThemeName' = IF loads[i].origin = "select" /\ threw
                            THEN loads[i].current ELSE selectedThemeName

\* this.themeConfig.value = await getTheme(themeName) resolves; the custom entry of
\* themeName is created when missing
LoadThemeResolve(i) ==
    /\ loads[i].state = "pending"
    /\ LET s == [site EXCEPT !.custom = EnsureCustom(site.custom, loads[i].name)]
       IN /\ site' = s
          /\ Activate(loads[i].name, s)
    /\ Settle(i, FALSE, [loads[i] EXCEPT !.state = "loaded", !.activeAfter = loads[i].name])
    /\ UNCHANGED <<persisted, modal, edits>>
    /\ UNCHANGED nonSiteVars

\* getTheme(themeName) rejects: catch. With an active theme it stays and the error is
\* reported; with none, getTheme(DEFAULT_THEME_NAME) is awaited
LoadThemeReject(i) ==
    /\ loads[i].state = "pending"
    /\ IF themeConfig # Null
       THEN Settle(i, FALSE, [loads[i] EXCEPT !.state = "failed",
                                              !.activeAtFail = themeConfig,
                                              !.activeBefore = themeConfig,
                                              !.activeAfter = themeConfig,
                                              !.reported = TRUE])
       ELSE /\ loads' = [loads EXCEPT ![i].state = "fallback"]
            /\ UNCHANGED <<sitePc, selectedThemeName, settled, nLoads>>
    /\ UNCHANGED <<persisted, site, themeConfig, form, modal, edits, roundTrip>>
    /\ UNCHANGED nonSiteVars

\* the awaited getTheme(DEFAULT_THEME_NAME) resolves: it is assigned to themeConfig,
\* whatever themeConfig holds by now; the error is reported
LoadThemeFallbackResolve(i) ==
    /\ loads[i].state = "fallback"
    /\ Activate(DEFAULT_THEME_NAME, site)
    /\ Settle(i, FALSE, [loads[i] EXCEPT !.state = "failed", !.activeBefore = themeConfig,
                                         !.activeAfter = DEFAULT_THEME_NAME,
                                         !.reported = TRUE])
    /\ UNCHANGED <<persisted, site, modal, edits>>
    /\ UNCHANGED nonSiteVars

\* the awaited getTheme(DEFAULT_THEME_NAME) rejects inside catch: loadTheme rejects
\* before reportError is reached
LoadThemeFallbackReject(i) ==
    /\ loads[i].state = "fallback"
    /\ Settle(i, TRUE, [loads[i] EXCEPT !.state = "threw", !.activeBefore = themeConfig,
                                        !.activeAfter = themeConfig])
    /\ UNCHANGED <<persisted, site, themeConfig, form, modal, edits, roundTrip>>
    /\ UNCHANGED nonSiteVars

\* ---- the site form ----

\* the form is set up once the site is there: siteModelRef is a copy of site, and
\* useSelectTheme's watchEffect takes selectedThemeName from it
FormMount ==
    /\ site.ready
    /\ ~form.mounted
    /\ form' = [mounted |-> TRUE, themeName |-> site.themeName, custom |-> site.custom]
    /\ selectedThemeName' = site.themeName
    /\ UNCHANGED <<sitePc, persisted, site, themeConfig, loads, settled, nLoads, modal,
                   edits, roundTrip>>
    /\ UNCHANGED nonSiteVars

\* pickBy(custom[currentThemeName], negate(isUnset)): a missing entry counts as {}
PickSet(entry) == IF entry.present THEN entry.val ELSE "empty"

\* onSuccess: siteModelRef.value.themeName = themeName; loadTheme(themeName).catch(onFail)
OnSuccess(themeName, current) ==
    /\ form' = [form EXCEPT !.themeName = themeName]
    /\ loads' = Append(loads, NewLoad(themeName, "select", current))
    /\ nLoads' = nLoads + 1
    /\ UNCHANGED settled

\* handleSelect(themeName), called by the theme select with the chosen name
HandleSelect(themeName) ==
    /\ form.mounted
    /\ ~modal.open
    /\ nLoads < MaxLoads
    /\ Len(loads) < MaxPending
    /\ LET current == form.themeName
           isModified == PickSet(site.custom[current]) # PickSet(form.custom[current])
       IN IF isModified
          THEN /\ modal' = [open |-> TRUE, themeName |-> themeName, current |-> current]
               /\ UNCHANGED <<form, loads, settled, nLoads>>
          ELSE /\ OnSuccess(themeName, current)
               /\ UNCHANGED modal
    /\ selectedThemeName' = themeName
    /\ UNCHANGED <<sitePc, persisted, site, themeConfig, edits, roundTrip>>
    /\ UNCHANGED nonSiteVars

\* Modal.confirm onOk: onSuccess
ModalOk ==
    /\ modal.open
    /\ OnSuccess(modal.themeName, modal.current)
    /\ modal' = NoModal
    /\ UNCHANGED <<sitePc, persisted, site, themeConfig, selectedThemeName, edits, roundTrip>>
    /\ UNCHANGED nonSiteVars

\* Modal.confirm onCancel: onFail
ModalCancel ==
    /\ modal.open
    /\ selectedThemeName' = modal.current
    /\ modal' = NoModal
    /\ UNCHANGED <<sitePc, persisted, site, themeConfig, loads, settled, nLoads, form,
                   edits, roundTrip>>
    /\ UNCHANGED nonSiteVars

\* the user edits the custom fields shown, those of the active theme
\* (useCustomFieldModel's computed: siteModelRef.value.custom[themeName])
EditCustom(v) ==
    /\ form.mounted
    /\ ~modal.open
    /\ themeConfig # Null
    /\ form.custom[themeConfig].present
    /\ edits < MaxEdits
    /\ edits' = edits + 1
    /\ form' = [form EXCEPT !.custom[themeConfig] = Entry(v)]
    /\ roundTrip' = NoTrip
    /\ UNCHANGED <<sitePc, persisted, site, themeConfig, loads, settled, nLoads,
                   selectedThemeName, modal>>
    /\ UNCHANGED nonSiteVars

\* saveSite(site): Object.assign(this.site.value, toRaw(site)); repository.saveSite
SaveSite(partial) ==
    /\ site.ready
    /\ ~modal.open
    /\ edits < MaxEdits
    /\ edits' = edits + 1
    /\ site' = [site EXCEPT !.themeName = partial.themeName, !.custom = partial.custom]
    /\ persisted' = [saved |-> TRUE, themeName |-> partial.themeName, custom |-> partial.custom]
    /\ roundTrip' = NoTrip
    /\ UNCHANGED <<sitePc, themeConfig, loads, settled, nLoads, form, selectedThemeName, modal>>
    /\ UNCHANGED nonSiteVars

\* the form saves its model
SaveForm ==
    /\ form.mounted
    /\ SaveSite(form)

SiteNext ==
    \/ SiteInitGetThemes
    \/ SiteInitFails
    \/ SiteInitGetSite
    \/ \E i \in 1..Len(loads) : LoadThemeResolve(i)
    \/ \E i \in 1..Len(loads) : LoadThemeReject(i)
    \/ \E i \in 1..Len(loads) : LoadThemeFallbackResolve(i)
    \/ \E i \in 1..Len(loads) : LoadThemeFallbackReject(i)
    \/ FormMount
    \/ \E t \in Themes : HandleSelect(t)
    \/ ModalOk
    \/ ModalCancel
    \/ \E v \in TypedVals : EditCustom(v)
    \/ SaveForm

-----------------------------------------------------------------------------
(* --------------------------------- Page -------------------------------- *)

MaxParts == 2

\* 'markdown://', a character at a time
MARKDOWN_CONTENT_PREFIX == <<"m", "a", "r", "k", "d", "o", "w", "n", ":", "/", "/">>

\* the pieces field texts are made of: the prefix, a beginning of it, other text
Parts == {MARKDOWN_CONTENT_PREFIX, <<"m", "a", "r", "k">>, <<"x">>}

RECURSIVE Texts(_)
Texts(n) == IF n = 0 THEN {<<>>}
            ELSE Texts(n - 1) \cup {p \o s : p \in Parts, s \in Texts(n - 1)}

\* values of a field variable: a type tag with the text of a string (for a list, the
\* text of its one string element)
Str(s) == [t |-> "string", s |-> s]
NullVal == [t |-> "null", s |-> <<>>]
UndefinedVal == [t |-> "undefined", s |-> <<>>]
NonStrings ==
    { NullVal, UndefinedVal,
      [t |-> "number", s |-> <<>>],
      [t |-> "boolean", s |-> <<>>],
      [t |-> "list", s |-> MARKDOWN_CONTENT_PREFIX \o <<"x">>],
      [t |-> "record", s |-> <<>>] }
\* the key is not in the mapping
Absent == [t |-> "absent", s |-> <<>>]
\* evaluating the value raised a TypeError
Threw == [t |-> "threw", s |-> <<>>]

isString(value) == value.t = "string"

\* the fields of the page: 'url' (a plain input) and the theme's markdown field 'body'
FieldNames == {"url", "body"}
markdownFieldNames == {"body"}

\* the mappings handed to the constructor and to setValues
VarsInputs ==
    { [url |-> u, body |-> b] :
        u \in {Absent, NullVal, Str(MARKDOWN_CONTENT_PREFIX \o <<"x">>)},
        b \in {Absent} \cup NonStrings \cup {Str(s) : s \in Texts(MaxParts)} }

\* (mutant) the prefix is left on the content
KeepMarkdownPrefix(content) == content

\* content.replace(new RegExp('^markdown://'), '')
trimMarkdownPrefix(content) ==
    IF IsPrefix(MARKDOWN_CONTENT_PREFIX, content)
    THEN SubSeq(content, Len(MARKDOWN_CONTENT_PREFIX) + 1, Len(content))
    ELSE content

\* (mutant) every value of a markdown field is trimmed: value.replace is not a function
\* for a value that is no string
SetValueOfAnyType(key, value) ==
    IF key \in markdownFieldNames
    THEN IF isString(value) THEN Str(trimMarkdownPrefix(value.s)) ELSE Threw
    ELSE value

\* the callback of mapValues in setValues
SetValue(key, value) ==
    IF key \in markdownFieldNames /\ isString(value)
    THEN Str(trimMarkdownPrefix(value.s))
    ELSE value

\* the callback of mapValues in outputValues
OutputValue(key, value) ==
    IF key \in markdownFieldNames /\ isString(value)
    THEN Str(MARKDOWN_CONTENT_PREFIX \o value.s)
    ELSE value

\* Object.assign(this.fieldVars, mapValues(values, ...))
Assigned(vs, values) ==
    [k \in FieldNames |-> IF values[k] = Absent THEN vs[k] ELSE SetValue(k, values[k])]

Throws(values) == \E k \in FieldNames : values[k] # Absent /\ SetValue(k, values[k]) = Threw

\* the field variables the constructor starts from: null for every field
NullVars == [k \in FieldNames |-> NullVal]
NoVars == [k \in FieldNames |-> Absent]

PageInit ==
    /\ pagePc = "none"
    /\ fieldVars = NoVars
    /\ supplied = NoVars
    /\ held = NoVars
    /\ output = NoVars
    /\ pageError = FALSE

\* no page is constructed
PageIdle ==
    /\ pagePc = "none"
    /\ fieldVars = NoVars
    /\ supplied = NoVars
    /\ held = NoVars
    /\ output = NoVars
    /\ pageError = FALSE

\* setValues(values) on the field variables vs
DoSetValues(vs, values) ==
    /\ supplied' = values
    /\ IF Throws(values)
       THEN pageError' = TRUE /\ fieldVars' = vs
       ELSE pageError' = pageError /\ fieldVars' = Assigned(vs, values)

\* new Page(name, fieldVars, themeConfig)
PageConstruct(values) ==
    /\ pagePc = "none"
    /\ DoSetValues(NullVars, values)
    /\ pagePc' = "set"
    /\ UNCHANGED <<held, output>>
    /\ UNCHANGED nonPageVars

\* page.setValues(values)
PageSetValues(values) ==
    /\ pagePc = "set"
    /\ ~pageError
    /\ DoSetValues(fieldVars, values)
    /\ pagePc' = "set"
    /\ UNCHANGED <<held, output>>
    /\ UNCHANGED nonPageVars

\* page.outputValues()
PageOutputValues ==
    /\ pagePc \in {"set", "reloaded"}
    /\ ~pageError
    /\ held' = fieldVars
    /\ output' = [k \in FieldNames |-> OutputValue(k, fieldVars[k])]
    /\ pagePc' = "output"
    /\ UNCHANGED <<fieldVars, supplied, pageError>>
    /\ UNCHANGED nonPageVars

\* the output is decoded again: page.setValues(output)
PageReloadSetValues ==
    /\ pagePc = "output"
    /\ DoSetValues(fieldVars, output)
    /\ pagePc' = "reloaded"
    /\ UNCHANGED <<held, output>>
    /\ UNCHANGED nonPageVars

\* the output is decoded again: new Page(name, output, themeConfig)
PageReloadConstruct ==
    /\ pagePc = "output"
    /\ DoSetValues(NullVars, output)
    /\ pagePc' = "reloaded"
    /\ UNCHANGED <<held, output>>
    /\ UNCHANGED nonPageVars

PageNext ==
    \/ \E values \in VarsInputs : PageConstruct(values)
    \/ \E values \in VarsInputs : PageSetValues(values)
    \/ PageOutputValues
    \/ PageReloadSetValues
    \/ PageReloadConstruct

-----------------------------------------------------------------------------
(* ---------------------------- article service -------------------------- *)

MaxArticleOps == 3
MaxUrlCalls == 2

NoteIds == {"n1", "n2", "n3"}
\* no noteId: the property is missing from the object
NoNoteId == "undefined"

\* urls, a character at a time: '', 'a', 'a-1', 'b'
Urls == {<<>>, <<"a">>, <<"a", "-", "1">>, <<"b">>}
\* the object has no url property
NoUrl == <<"undefined">>

Digits == <<"0", "1", "2", "3", "4", "5", "6", "7", "8", "9">>

\* the decimal digits of the index, as the template literal writes them
RECURSIVE IndexText(_)
IndexText(n) == IF n < 10 THEN <<Digits[n + 1]>>
               ELSE IndexText(n \div 10) \o <<Digits[(n % 10) + 1]>>

Article(noteId, url, noteContent) ==
    [noteId |-> noteId, url |-> url, published |-> FALSE, content |-> "undefined",
     noteContent |-> noteContent]

\* what pluginDataRepository.getArticles() may return, with the note contents fetched
\* for them ("null": nothing was saved yet)
SavedArticles ==
    { <<>>,
      <<Article("n1", <<"a">>, "note"), Article("n2", <<"b">>, "undefined")>>,
      <<Article("n1", <<"a">>, "note"),
        [Article("n2", <<"a", "-", "1">>, "note") EXCEPT !.published = TRUE],
        Article("n3", <<>>, "note")>> }

ArticleInit ==
    /\ artPc = "init"
    /\ persistedArticles \in SavedArticles
    /\ articles = <<>>
    /\ selectedArticles = <<>>
    /\ artError = "none"
    /\ artOps = 0
    /\ urlCalls = 0
    /\ urlBase = <<>>
    /\ urlResult = NoUrl
    /\ sameColl = <<>>
    /\ retained = <<>>
    /\ urlFresh = FALSE

\* the article service is never constructed
ArticleIdle ==
    /\ artPc = "init"
    /\ persistedArticles = <<>>
    /\ articles = <<>>
    /\ selectedArticles = <<>>
    /\ artError = "none"
    /\ artOps = 0
    /\ urlCalls = 0
    /\ urlBase = <<>>
    /\ urlResult = NoUrl
    /\ sameColl = <<>>
    /\ retained = <<>>
    /\ urlFresh = FALSE

Range(seq) == {seq[i] : i \in 1..Len(seq)}

\* lodash pull(array, ...values) / filter: the elements of seq that satisfy Keep, in order
RECURSIVE SelectFrom(_, _)
SelectFrom(seq, keep) ==
    IF seq = <<>> THEN <<>>
    ELSE (IF Head(seq) \in keep THEN <<Head(seq)>> ELSE <<>>) \o SelectFrom(Tail(seq), keep)

\* findIndex(this.articles, { noteId }): the first index, 0 when there is none
findIndex(as, noteId) ==
    IF \E i \in 1..Len(as) : as[i].noteId = noteId
    THEN CHOOSE i \in 1..Len(as) :
            /\ as[i].noteId = noteId
            /\ \A j \in 1..(i - 1) : as[j].noteId # noteId
    ELSE 0

\* isValidUrl(newUrl, noteId) on the collection as
isValidUrl(as, newUrl, noteId) ==
    \A i \in 1..Len(as) : ~(as[i].noteId # noteId /\ as[i].url = newUrl)

\* the loop of getValidUrl from (url, index) on
RECURSIVE ValidUrlFrom(_, _, _, _)
ValidUrlFrom(as, baseUrl, url, idx) ==
    IF isValidUrl(as, url, NoNoteId) THEN url
    ELSE ValidUrlFrom(as, baseUrl, baseUrl \o <<"-">> \o IndexText(idx), idx + 1)

\* (mutant) one suffix is tried and returned without looking again
getValidUrlOnce(as, baseUrl) ==
    IF isValidUrl(as, baseUrl, NoNoteId) THEN baseUrl ELSE baseUrl \o <<"-">> \o IndexText(1)

\* getValidUrl(baseUrl) on the collection as
getValidUrl(as, baseUrl) == ValidUrlFrom(as, baseUrl, baseUrl, 1)

InUse(as, url) == \E i \in 1..Len(as) : as[i].url = url

\* ---- ArticleService ----

Saved(as) == persistedArticles' = as

\* the histories of getValidUrl results: a change of the collection ends the run of
\* calls made against the same collection
Mutated ==
    /\ sameColl' = <<>>
    /\ urlFresh' = FALSE
    /\ UNCHANGED <<urlCalls, urlBase, urlResult, retained>>

\* init: the saved articles, if any, are pushed with their note contents
ArticleInitDone ==
    /\ artPc = "init"
    /\ artPc' = "ready"
    /\ articles' = persistedArticles
    /\ UNCHANGED <<persistedArticles, selectedArticles, artError, artOps, urlCalls,
                   urlBase, urlResult, sameColl, retained, urlFresh>>
    /\ UNCHANGED nonArticleVars

\* toggleArticleSelected(article), the article named by its noteId
ToggleArticleSelected(noteId) ==
    /\ artPc = "ready"
    /\ artOps < MaxArticleOps
    /\ \E i \in 1..Len(articles) : articles[i].noteId = noteId
    /\ selectedArticles' = IF noteId \in Range(selectedArticles)
                           THEN SelectFrom(selectedArticles, Range(selectedArticles) \ {noteId})
                           ELSE Append(selectedArticles, noteId)
    /\ artOps' = artOps + 1
    /\ artError' = "none"
    /\ UNCHANGED <<artPc, articles, persistedArticles, urlCalls, urlBase, urlResult,
                   sameColl, retained, urlFresh>>
    /\ UNCHANGED nonArticleVars

\* removeArticles()
RemoveArticles ==
    /\ artPc = "ready"
    /\ artOps < MaxArticleOps
    /\ LET kept == {articles[i] : i \in {j \in 1..Len(articles) :
                                          articles[j].noteId \notin Range(selectedArticles)}}
       IN /\ articles' = SelectFrom(articles, kept)
          /\ Saved(SelectFrom(articles, kept))
    /\ selectedArticles' = <<>>
    /\ artOps' = artOps + 1
    /\ artError' = "none"
    /\ Mutated
    /\ UNCHANGED artPc
    /\ UNCHANGED nonArticleVars

\* (mutant) every selected article leaves the selection
TogglePublishedDeselectsAll(status) ==
    /\ artPc = "ready"
    /\ artOps < MaxArticleOps
    /\ LET target == (status = "published")
           changed == {articles[i].noteId : i \in {j \in 1..Len(articles) :
                          /\ articles[j].noteId \in Range(selectedArticles)
                          /\ articles[j].published # target}}
           as == [i \in 1..Len(articles) |->
                    IF articles[i].noteId \in changed
                    THEN [articles[i] EXCEPT !.published = target] ELSE articles[i]]
       IN /\ articles' = as
          /\ selectedArticles' = <<>>
          /\ Saved(as)
    /\ artOps' = artOps + 1
    /\ artError' = "none"
    /\ Mutated
    /\ UNCHANGED artPc
    /\ UNCHANGED nonArticleVars

\* togglePublished(status)
TogglePublished(status) ==
    /\ artPc = "ready"
    /\ artOps < MaxArticleOps
    /\ LET target == (status = "published")
           changed == {articles[i].noteId : i \in {j \in 1..Len(articles) :
                          /\ articles[j].noteId \in Range(selectedArticles)
                          /\ articles[j].published # target}}
           as == [i \in 1..Len(articles) |->
                    IF articles[i].noteId \in changed
                    THEN [articles[i] EXCEPT !.published = target] ELSE articles[i]]
       IN /\ articles' = as
          /\ selectedArticles' = SelectFrom(selectedArticles,
                                            Range(selectedArticles) \ changed)
          /\ Saved(as)
    /\ artOps' = artOps + 1
    /\ artError' = "none"
    /\ Mutated
    /\ UNCHANGED artPc
    /\ UNCHANGED nonArticleVars

\* saveArticle(article), article a partial with a noteId (or none) and a url (or none)
SaveArticle(noteId, url) ==
    /\ artPc = "ready"
    /\ artOps < MaxArticleOps
    /\ artOps' = artOps + 1
    /\ LET at == findIndex(articles, noteId)
       IN IF noteId = NoNoteId
          THEN /\ artError' = "no article noteId when saving"
               /\ UNCHANGED <<articles, persistedArticles, sameColl, urlFresh>>
          ELSE IF at = 0
          THEN /\ artError' = "no article when saving"
               /\ UNCHANGED <<articles, persistedArticles, sameColl, urlFresh>>
          ELSE LET as == IF url = NoUrl THEN articles
                         ELSE [articles EXCEPT ![at].url = url]
               IN /\ articles' = as
                  /\ Saved(as)
                  /\ artError' = "none"
                  /\ sameColl' = <<>>
                  /\ urlFresh' = FALSE
    /\ UNCHANGED <<artPc, selectedArticles, urlCalls, urlBase, urlResult, retained>>
    /\ UNCHANGED nonArticleVars

\* updateArticleContent(article), the article named by its noteId
UpdateArticleContent(noteId) ==
    /\ artPc = "ready"
    /\ artOps < MaxArticleOps
    /\ artOps' = artOps + 1
    /\ \E i \in 1..Len(articles) :
        /\ articles[i].noteId = noteId
        /\ IF articles[i].noteContent = "undefined"
           THEN /\ artError' = "no noteContent when updating"
                /\ UNCHANGED <<articles, sameColl, urlFresh>>
           ELSE /\ articles' = [articles EXCEPT ![i].content = articles[i].noteContent]
                /\ artError' = "none"
                /\ sameColl' = <<>>
                /\ urlFresh' = FALSE
    /\ UNCHANGED <<artPc, selectedArticles, persistedArticles, urlCalls, urlBase,
                   urlResult, retained>>
    /\ UNCHANGED nonArticleVars

\* loadArticle(article), the article named by its noteId: files and note content are
\* fetched (Promise.all); the note content becomes the content when there is none yet
LoadArticle(noteId, fetched) ==
    /\ artPc = "ready"
    /\ artOps < MaxArticleOps
    /\ artOps' = artOps + 1
    /\ \E i \in 1..Len(articles) :
        /\ articles[i].noteId = noteId
        /\ IF fetched = "rejected"
           THEN /\ artError' = "rejected"
                /\ UNCHANGED <<articles, sameColl, urlFresh>>
           ELSE /\ articles' = [articles EXCEPT
                                   ![i].noteContent = fetched,
                                   ![i].content = IF articles[i].content = "undefined"
                                                  THEN fetched ELSE articles[i].content]
                /\ artError' = "none"
                /\ sameColl' = <<>>
                /\ urlFresh' = FALSE
    /\ UNCHANGED <<artPc, selectedArticles, persistedArticles, urlCalls, urlBase,
                   urlResult, retained>>
    /\ UNCHANGED nonArticleVars

\* getValidUrl(baseUrl); the results of the calls made with one base that some article
\* uses are kept, (sameColl) those made since the collection last changed and
\* (retained) those made while every earlier result was the url of some article
GetValidUrl(baseUrl) ==
    /\ artPc = "ready"
    /\ urlCalls < MaxUrlCalls
    /\ urlCalls' = urlCalls + 1
    /\ urlFresh' = TRUE
    /\ LET url == getValidUrl(articles, baseUrl)
           again == baseUrl = urlBase
       IN /\ urlResult' = url
          /\ urlBase' = baseUrl
          /\ IF InUse(articles, baseUrl)
             THEN /\ sameColl' = IF again THEN Append(sameColl, url) ELSE <<url>>
                  /\ retained' = IF again /\ \A i \in 1..Len(retained) :
                                                 InUse(articles, retained[i])
                                 THEN Append(retained, url) ELSE <<url>>
             ELSE sameColl' = <<>> /\ retained' = <<>>
    /\ UNCHANGED <<artPc, articles, selectedArticles, persistedArticles, artError, artOps>>
    /\ UNCHANGED nonArticleVars

ArticleNext ==
    \/ ArticleInitDone
    \/ \E noteId \in NoteIds : ToggleArticleSelected(noteId)
    \/ RemoveArticles
    \/ \E status \in {"published", "unpublished"} : TogglePublished(status)
    \/ \E noteId \in NoteIds \cup {NoNoteId}, url \in Urls \cup {NoUrl} :
           SaveArticle(noteId, url)
    \/ \E noteId \in NoteIds : UpdateArticleContent(noteId)
    \/ \E noteId \in NoteIds, fetched \in {"note", "rejected"} : LoadArticle(noteId, fetched)
    \/ \E baseUrl \in Urls : GetValidUrl(baseUrl)

-----------------------------------------------------------------------------
(* ------------------------------ fetchAllData --------------------------- *)

\* highest page number requested
MaxPages == 3
\* longest item list of a page
MaxItems == 1

ItemVals == {"a", "b"}

\* the items of one page
ItemLists == UNION {[1..n -> ItemVals] : n \in 0..MaxItems}

\* a query without a page key, and the page key a caller may have put in its query
NoPage == 0
CallerPage == 7

\* the caller's query
QueryInputs == {[fields |-> f, page |-> g] : f \in {"id", "id,title"}, g \in {NoPage, CallerPage}}

NoReturn == [returned |-> FALSE, value |-> <<>>]

FetchInit ==
    /\ fetchPc = "idle"
    /\ query = [fields |-> "id", page |-> NoPage]
    /\ page = 1
    /\ hasMore = TRUE
    /\ result = <<>>
    /\ fetchLog = <<>>
    /\ fetchReturn = NoReturn

\* fetchAllData is never called
FetchIdle ==
    /\ fetchPc = "idle"
    /\ query = [fields |-> "id", page |-> NoPage]
    /\ page = 1
    /\ hasMore = TRUE
    /\ result = <<>>
    /\ fetchLog = <<>>
    /\ fetchReturn = NoReturn

\* { ...query, page: page++ }: the page key comes last and wins
Request(q, pg) == [q EXCEPT !.page = pg]

\* fetchAllData(path, query): let result = []; let page = 1; let hasMore = true
FetchAllData(q) ==
    /\ fetchPc = "idle"
    /\ query' = q
    /\ result' = <<>>
    /\ page' = 1
    /\ hasMore' = TRUE
    /\ fetchPc' = "loop"
    /\ UNCHANGED <<fetchLog, fetchReturn>>
    /\ UNCHANGED nonFetchVars

\* while (hasMore) { ... await fetchData(path, { ...query, page: page++ })
FetchData ==
    /\ fetchPc = "loop"
    /\ hasMore
    /\ page <= MaxPages
    /\ fetchLog' = Append(fetchLog, [req |-> Request(query, page), state |-> "pending",
                                     items |-> <<>>, has_more |-> FALSE])
    /\ page' = page + 1
    /\ fetchPc' = "awaiting"
    /\ UNCHANGED <<query, hasMore, result, fetchReturn>>
    /\ UNCHANGED nonFetchVars

\* (mutant) the has_more flag of the page is not taken over
FetchResolvesKeepsOn(its, more) ==
    /\ fetchPc = "awaiting"
    /\ fetchLog' = [fetchLog EXCEPT ![Len(fetchLog)] =
                      [@ EXCEPT !.state = "resolved", !.items = its, !.has_more = more]]
    /\ result' = result \o its
    /\ fetchPc' = "loop"
    /\ UNCHANGED <<query, page, hasMore, fetchReturn>>
    /\ UNCHANGED nonFetchVars

\* const { items, has_more } = await ...; result = result.concat(items); hasMore = has_more
FetchResolves(its, more) ==
    /\ fetchPc = "awaiting"
    /\ fetchLog' = [fetchLog EXCEPT ![Len(fetchLog)] =
                      [@ EXCEPT !.state = "resolved", !.items = its, !.has_more = more]]
    /\ result' = result \o its
    /\ hasMore' = more
    /\ fetchPc' = "loop"
    /\ UNCHANGED <<query, page, fetchReturn>>
    /\ UNCHANGED nonFetchVars

\* the awaited fetchData rejects: fetchAllData rejects with it, result is dropped
FetchRejects ==
    /\ fetchPc = "awaiting"
    /\ fetchLog' = [fetchLog EXCEPT ![Len(fetchLog)] = [@ EXCEPT !.state = "rejected"]]
    /\ fetchPc' = "failed"
    /\ UNCHANGED <<query, page, hasMore, result, fetchReturn>>
    /\ UNCHANGED nonFetchVars

\* the while test fails: return result
FetchReturns ==
    /\ fetchPc = "loop"
    /\ ~hasMore
    /\ fetchReturn' = [returned |-> TRUE, value |-> result]
    /\ fetchPc' = "returned"
    /\ UNCHANGED <<query, page, hasMore, result, fetchLog>>
    /\ UNCHANGED nonFetchVars

FetchNext ==
    \/ \E q \in QueryInputs : FetchAllData(q)
    \/ FetchData
    \/ \E its \in ItemLists, more \in BOOLEAN : FetchResolves(its, more)
    \/ FetchRejects
    \/ FetchReturns

-----------------------------------------------------------------------------
(* ------------------------------ generateSite --------------------------- *)

\* generateSite requests made through the bridge
MaxGenerations == 3

\* what pageRenderer.init() loads, in order
InitSteps == <<"theme", "site", "articles">>

\* what an awaited step rejects with
GenErrors == {"ThemeLoadError", "Error"}

\* one generateSite request
NewGeneration == [steps |-> <<>>, failedAt |-> "none", error |-> "none", reply |-> "none"]

GenInit ==
    /\ genPc = "idle"
    /\ genLog = <<>>
    /\ genReply = "none"
    /\ generations = 0

\* generateSite is never requested
GenIdle ==
    /\ genPc = "idle"
    /\ genLog = <<>>
    /\ genReply = "none"
    /\ generations = 0

\* the request being served
GenCurrent == genLog[Len(genLog)]

GenRecord(r) == genLog' = [genLog EXCEPT ![Len(genLog)] = r]

\* case 'generateSite': return generateSite(); new PageRenderer(); pageRenderer.init()
GenerateSite ==
    /\ genPc \in {"idle", "done", "failed"}
    /\ generations < MaxGenerations
    /\ generations' = generations + 1
    /\ genLog' = Append(genLog, NewGeneration)
    /\ genReply' = "none"
    /\ genPc' = "init"
    /\ UNCHANGED nonGenVars

\* pageRenderer.init() loads the theme, the site, the articles
GenInitLoads ==
    /\ genPc = "init"
    /\ Len(GenCurrent.steps) < Len(InitSteps)
    /\ GenRecord([GenCurrent EXCEPT !.steps = Append(@, InitSteps[Len(@) + 1])])
    /\ UNCHANGED <<genPc, genReply, generations>>
    /\ UNCHANGED nonGenVars

\* await pageRenderer.init() resolves; pageRenderer.outputPages() is called
GenInitResolves ==
    /\ genPc = "init"
    /\ Len(GenCurrent.steps) = Len(InitSteps)
    /\ GenRecord([GenCurrent EXCEPT !.steps = Append(@, "outputPages")])
    /\ genPc' = "outputPages"
    /\ UNCHANGED <<genReply, generations>>
    /\ UNCHANGED nonGenVars

\* (mutant) the error of init is logged and outputPages is called all the same
GenInitRejectsSwallowed(e) ==
    /\ genPc = "init"
    /\ Len(GenCurrent.steps) < Len(InitSteps)
    /\ GenRecord([GenCurrent EXCEPT !.failedAt = "init", !.error = e,
                              !.steps = Append(@, "outputPages")])
    /\ genPc' = "outputPages"
    /\ UNCHANGED <<genReply, generations>>
    /\ UNCHANGED nonGenVars

\* await pageRenderer.init() rejects: catch (error) { console.warn(error); throw error }
GenInitRejects(e) ==
    /\ genPc = "init"
    /\ Len(GenCurrent.steps) < Len(InitSteps)
    /\ GenRecord([GenCurrent EXCEPT !.failedAt = "init", !.error = e, !.reply = e])
    /\ genReply' = e
    /\ genPc' = "failed"
    /\ UNCHANGED generations
    /\ UNCHANGED nonGenVars

\* await pageRenderer.outputPages() resolves: generateSite resolves
GenOutputResolves ==
    /\ genPc = "outputPages"
    /\ GenRecord([GenCurrent EXCEPT !.steps = Append(@, "written"), !.reply = "resolved"])
    /\ genReply' = "resolved"
    /\ genPc' = "done"
    /\ UNCHANGED generations
    /\ UNCHANGED nonGenVars

\* await pageRenderer.outputPages() rejects: catch (error) { ...; throw error }
GenOutputRejects(e) ==
    /\ genPc = "outputPages"
    /\ GenRecord([GenCurrent EXCEPT !.failedAt = "outputPages", !.error = e, !.reply = e])
    /\ genReply' = e
    /\ genPc' = "failed"
    /\ UNCHANGED generations
    /\ UNCHANGED nonGenVars

GenNext ==
    \/ GenerateSite
    \/ GenInitLoads
    \/ GenInitResolves
    \/ \E e \in GenErrors : GenInitRejects(e)
    \/ GenOutputResolves
    \/ \E e \in GenErrors : GenOutputRejects(e)

-----------------------------------------------------------------------------
(* ------------------------------- Page.fields --------------------------- *)

\* longest field list a theme declares for a page
MaxThemeFields == 2

INDEX_PAGE_NAME == "index"
ARTICLE_PAGE_NAME == "article"

PageNames == {INDEX_PAGE_NAME, ARTICLE_PAGE_NAME, "about"}

Field(n, label, defaultValue) == [name |-> n, label |-> label, defaultValue |-> defaultValue]

\* a null (falsy) element of a field list
NullField == Field("null", "null", "null")

\* { name: 'url', label: 'Url', placeholder: ... }: no defaultValue
UrlField == Field("url", "Url", "undefined")

\* PREDEFINED_FIELDS[name] || []
PredefinedFields(n) ==
    IF n = ARTICLE_PAGE_NAME
    THEN <<Field("dateFormat", "Date Format", "YYYY-MM-DD HH:mm")>>
    ELSE <<>>

\* a field as a theme declares it
ThemeField(n) == Field(n, "theme", "theme")

ThemeFieldLists ==
    UNION {[1..k -> {NullField} \cup {ThemeField(n) : n \in {"url", "dateFormat", "cover"}}] :
             k \in 0..MaxThemeFields}

NotDeclared == [declared |-> FALSE, list |-> <<>>]

Declared(l) == [declared |-> TRUE, list |-> l]

\* themeConfig.pages of the themes a page is constructed with
ThemeInputs ==
    { [n \in PageNames |-> IF n = INDEX_PAGE_NAME THEN i
                           ELSE IF n = ARTICLE_PAGE_NAME THEN a ELSE o] :
        i \in {NotDeclared} \cup {Declared(l) : l \in ThemeFieldLists},
        a \in {NotDeclared} \cup {Declared(l) : l \in ThemeFieldLists},
        o \in {NotDeclared, Declared(<<ThemeField("cover")>>)} }

\* lodash compact: the falsy elements are dropped
compact(list) == SelectSeq(list, LAMBDA f : f # NullField)

\* (mutant) the fields the theme declares are put before the predefined ones
FieldsThemeFirst(n, pages) ==
    compact(<<IF n = INDEX_PAGE_NAME THEN NullField ELSE UrlField>>
            \o pages[n].list
            \o PredefinedFields(n))

\* readonly fields = compact([name === INDEX_PAGE_NAME ? null : {url},
\*   ...(PREDEFINED_FIELDS[name] || []), ...(themeConfig.pages[name] ?? [])])
Fields(n, pages) ==
    compact(<<IF n = INDEX_PAGE_NAME THEN NullField ELSE UrlField>>
            \o PredefinedFields(n)
            \o pages[n].list)

NoFields == [built |-> FALSE, list |-> <<>>]

FieldsInit ==
    /\ pageName \in PageNames
    /\ themePages \in ThemeInputs
    /\ fields = NoFields

\* no page is constructed
FieldsIdle ==
    /\ pageName = INDEX_PAGE_NAME
    /\ themePages = [n \in PageNames |-> NotDeclared]
    /\ fields = NoFields

\* new Page(name, fieldVars, themeConfig): the field initializer
PageFields ==
    /\ ~fields.built
    /\ fields' = [built |-> TRUE, list |-> Fields(pageName, themePages)]
    /\ UNCHANGED <<pageName, themePages>>
    /\ UNCHANGED nonFieldsVars

FieldsNext == PageFields

-----------------------------------------------------------------------------
(* ------------------------------ useAppWarning -------------------------- *)

\* changes of isModifiedRef / isValidRef while the form is shown
MaxFormChanges == 5

FORBIDDEN == {"GENERATE", "TAB_SWITCH"}
MODIFICATION_WARNING == "Site modification has not been saved."
INVALID_WARNING == "Site field(s) has not been filled correctly."

\* setWarning(effect, warning, add): the warning is put on the effect's list or taken
\* off it; the call is logged
SetWarning(w, effect, warning, add) ==
    [list |-> IF add THEN w.list \cup {<<effect, warning>>}
              ELSE w.list \ {<<effect, warning>>},
     log |-> Append(w.log, [effect |-> effect, warning |-> warning, add |-> add])]

\* (mutant) only generation is warned about
ModificationEffectGenerateOnly(w, modified) ==
    SetWarning(w, "GENERATE", MODIFICATION_WARNING, modified)

\* watchEffect(() => { setWarning(GENERATE, MODIFICATION_WARNING, isModified.value);
\*                     setWarning(TAB_SWITCH, MODIFICATION_WARNING, isModified.value) })
ModificationEffect(w, modified) ==
    SetWarning(SetWarning(w, "GENERATE", MODIFICATION_WARNING, modified),
               "TAB_SWITCH", MODIFICATION_WARNING, modified)

\* watchEffect(() => { setWarning(GENERATE, INVALID_WARNING, !isValid.value);
\*                     setWarning(TAB_SWITCH, INVALID_WARNING, !isValid.value) })
InvalidEffect(w, valid) ==
    SetWarning(SetWarning(w, "GENERATE", INVALID_WARNING, ~valid),
               "TAB_SWITCH", INVALID_WARNING, ~valid)

WarnInit ==
    /\ warnPc = "none"
    /\ isModifiedRef \in BOOLEAN
    /\ isValidRef \in BOOLEAN
    /\ warnings = [list |-> {}, log |-> <<>>]

\* the site form is never shown
WarnIdle ==
    /\ warnPc = "none"
    /\ isModifiedRef = FALSE
    /\ isValidRef = TRUE
    /\ warnings = [list |-> {}, log |-> <<>>]

\* useAppWarning(isModified, isValid): both effects run once when they are set up
UseAppWarning ==
    /\ warnPc = "none"
    /\ warnPc' = "watching"
    /\ warnings' = InvalidEffect(ModificationEffect(warnings, isModifiedRef), isValidRef)
    /\ UNCHANGED <<isModifiedRef, isValidRef>>
    /\ UNCHANGED nonWarnVars

\* isModified changes: the effect that read it runs again
ChangeModified ==
    /\ warnPc = "watching"
    /\ Len(warnings.log) < 4 + 2 * MaxFormChanges
    /\ isModifiedRef' = ~isModifiedRef
    /\ warnings' = ModificationEffect(warnings, ~isModifiedRef)
    /\ UNCHANGED <<warnPc, isValidRef>>
    /\ UNCHANGED nonWarnVars

\* isValid changes: the effect that read it runs again
ChangeValid ==
    /\ warnPc = "watching"
    /\ Len(warnings.log) < 4 + 2 * MaxFormChanges
    /\ isValidRef' = ~isValidRef
    /\ warnings' = InvalidEffect(warnings, ~isValidRef)
    /\ UNCHANGED <<warnPc, isModifiedRef>>
    /\ UNCHANGED nonWarnVars

WarnNext ==
    \/ UseAppWarning
    \/ ChangeModified
    \/ ChangeValid

-----------------------------------------------------------------------------
(* ---------------------------- specifications --------------------------- *)

\* fetchAllData, generateSite, Page.fields and useAppWarning are never used
RestIdle == FetchIdle /\ GenIdle /\ FieldsIdle /\ WarnIdle

\* the four components above are never used
CoreIdle == GitIdle /\ SiteIdle /\ PageIdle /\ ArticleIdle

\* the publish worker: the caller awaits each request before it sends the next one
Init == GitInit /\ SiteIdle /\ PageIdle /\ ArticleIdle /\ RestIdle

Next == GitStep(1)

Spec == Init /\ [][Next]_vars

\* the publish worker with a caller that does not wait: a request may arrive while
\* another is in progress, and the worker runs each as it arrives
InitOverlap == GitInit /\ SiteIdle /\ PageIdle /\ ArticleIdle /\ RestIdle

NextOverlap ==
    \E p \in CallSlots :
        \/ requests < MaxOverlapRequests /\ InitRepoRequest(p)
        \/ requests < MaxOverlapRequests /\ \E N \in NewFileSets : PublishRequest(p, N)
        \/ GitWork(p)

SpecOverlap == InitOverlap /\ [][NextOverlap]_vars

\* the site service and the site form
InitSite == SiteInit /\ GitIdle /\ PageIdle /\ ArticleIdle /\ RestIdle

SpecSite == InitSite /\ [][SiteNext]_vars


\* a page: constructed, given values, output and decoded again
InitPage == PageInit /\ GitIdle /\ SiteIdle /\ ArticleIdle /\ RestIdle

SpecPage == InitPage /\ [][PageNext]_vars

\* the article service
InitArticle == ArticleInit /\ GitIdle /\ SiteIdle /\ PageIdle /\ RestIdle

SpecArticle == InitArticle /\ [][ArticleNext]_vars

\* fetchAllData against a data API that answers each page request or rejects it
InitFetch == FetchInit /\ CoreIdle /\ GenIdle /\ FieldsIdle /\ WarnIdle

SpecFetch == InitFetch /\ [][FetchNext]_vars /\ WF_vars(FetchReturns)

\* generateSite requested through the webview bridge
InitGen == GenInit /\ CoreIdle /\ FetchIdle /\ FieldsIdle /\ WarnIdle

SpecGen == InitGen /\ [][GenNext]_vars

\* a page constructed for a name and a theme
InitFields == FieldsInit /\ CoreIdle /\ FetchIdle /\ GenIdle /\ WarnIdle

SpecFields == InitFields /\ [][FieldsNext]_vars

\* the warnings of the site form
InitWarn == WarnInit /\ CoreIdle /\ FetchIdle /\ GenIdle /\ FieldsIdle

SpecWarn == InitWarn /\ [][WarnNext]_vars
-----------------------------------------------------------------------------
(* Properties of the git publish worker                                    *)

\* the tracked file listing of the target branch, as listFiles reports it
BranchListing(refs) == {RelPath(f) : f \in refs[TargetBranch].tree}
\* the rendered file set passed to publish, relative to dir
Rendered(p) == {StripDir(x) : x \in call[p].files}

PublishSucceeded(p) == call[p].op = "publish" /\ call[p].pc = "done"

\* C1: after a successful publish of the file set N the tracked file listing of the
\* target branch, locally and on the remote, is exactly N, whatever was published before.
C1_PublishedListingIsRendered ==
    \A p \in CallSlots :
        PublishSucceeded(p) =>
            /\ BranchListing(localRefs) = Rendered(p)
            /\ BranchListing(remoteRefs) = Rendered(p)

\* C2: when a publish that failed after staging began is repeated with the same files
\* and the repetition succeeds, the target branch's tracked file listing equals the files.
C2_RetryPublishesSnapshot ==
    \A p \in CallSlots :
        (PublishSucceeded(p) /\ call[p].retry) => BranchListing(localRefs) = Rendered(p)

\* the steps of publish in the order the code awaits them
StepRank(s) ==
    CASE s = "delay" -> 1
      [] s = "add" -> 2
      [] s = "listFiles" -> 3
      [] s = "remove" -> 4
      [] s = "commit" -> 5
      [] s = "push" -> 6
      [] OTHER -> 0

\* steps is a run of delay, add, listFiles, remove*, commit, push cut at some point
InPublishOrder(steps) ==
    /\ \A i \in 1..Len(steps) : StepRank(steps[i]) > 0
    /\ steps # <<>> => steps[1] = "delay"
    /\ \A i \in 2..Len(steps) :
         \/ StepRank(steps[i]) = StepRank(steps[i - 1]) + 1
         \/ steps[i] = "remove" /\ steps[i - 1] = "remove"
         \/ steps[i] = "commit" /\ steps[i - 1] = "listFiles"

\* C3: every execution of publish runs delay, add, list-and-remove, commit, push in that
\* order, the delay first; after a failed step no later step is run (so no commit and no
\* push); a publish abandoned during the delay leaves index, branches and remote as they were.
C3_PublishStepOrder ==
    \A p \in CallSlots :
        call[p].op = "publish" =>
            /\ InPublishOrder(call[p].steps)
            /\ call[p].pc = "failed" =>
                 /\ \A i \in 1..Len(call[p].steps) :
                        StepRank(call[p].steps[i]) <= StepRank(call[p].failedAt)
                 /\ call[p].failedAt # "push" =>
                        /\ remoteRefs = call[p].pre.remoteRefs
                        /\ call[p].failedAt # "commit" => localRefs = call[p].pre.localRefs
                 /\ call[p].failedAt = "commit" => "commit" \notin
                        {call[p].steps[i] : i \in 1..Len(call[p].steps)}
                 /\ "push" \notin {call[p].steps[i] : i \in 1..Len(call[p].steps)}
            /\ call[p].pc = "abandoned" =>
                 /\ call[p].steps = <<>>
                 /\ index = call[p].pre.index
                 /\ localRefs = call[p].pre.localRefs
                 /\ remoteRefs = call[p].pre.remoteRefs

\* a publish that waited, staged, removed a file, committed and pushed
C3_Witness ==
    /\ call[1].op = "publish"
    /\ call[1].steps = <<"delay", "add", "listFiles", "remove", "commit", "push">>
    /\ call[1].pc = "done"

InitRepoSucceeded(p) == call[p].op = "initRepo" /\ call[p].pc = "done"

\* what one successful initRepo leaves of an empty storage: the remote's default branch
\* and the configured branch, both at the default branch's commit
ClonedRefs ==
    [b \in BranchNames |->
        IF b = remoteHead \/ b = InitBranchName THEN remoteRefs[remoteHead] ELSE NoRef]

\* C13: whatever initRepo and publish calls came before it, complete or failed, a
\* successful initRepo leaves working tree, index, branches, HEAD and identity as one
\* successful initRepo on empty storage leaves them.
C13_InitRepoIdempotent ==
    \A p \in CallSlots :
        InitRepoSucceeded(p) =>
            /\ workdir = {}
            /\ index = {}
            /\ head = remoteHead
            /\ localRefs = ClonedRefs
            /\ identity = [name |-> "userName", email |-> "email"]

\* initRepo succeeded on a tree in which a publish had staged files and made a commit
C13_Witness ==
    /\ InitRepoSucceeded(1)
    /\ call[1].pre.index # {}
    /\ call[1].pre.localRefs # ClonedRefs

StepsOf(p) == {call[p].steps[i] : i \in 1..Len(call[p].steps)}

\* C14: a clone or push that rejects ends the call with that error, the one outcome the
\* caller gets; the step was called once and no later step ran (after a failed clone no
\* branch and no identity, after a failed push the remote as it was).
C14_NetworkFailureEndsCall ==
    \A p \in CallSlots :
        /\ \A s \in NetworkSteps : call[p].tries[s] <= 1
        /\ (call[p].pc = "failed" /\ call[p].failedAt \in NetworkSteps) =>
              /\ call[p].error \in {"AuthError", "NetworkError"}
              /\ call[p].outcomes = <<call[p].error>>
              /\ call[p].tries[call[p].failedAt] = 1
              /\ call[p].failedAt \notin StepsOf(p)
              /\ call[p].failedAt = "clone" =>
                    /\ call[p].steps = <<"emptyGitdir", "emptyDir">>
                    /\ \A b \in BranchNames : ~localRefs[b].present
                    /\ identity = [name |-> "unset", email |-> "unset"]
              /\ call[p].failedAt = "push" =>
                    /\ call[p].steps[Len(call[p].steps)] = "commit"
                    /\ remoteRefs = call[p].pre.remoteRefs

\* a publish whose push was refused for its credentials
C14_Witness ==
    /\ call[1].op = "publish"
    /\ call[1].pc = "failed"
    /\ call[1].failedAt = "push"
    /\ call[1].error = "AuthError"
    /\ call[1].tries["push"] = 1

\* every request has at most one outcome, and has it once it has returned or thrown;
\* notifications come from the clone of initRepo or the push of publish
OutcomesAndNotes ==
    \A p \in CallSlots :
        /\ Len(call[p].outcomes) <= 1
        /\ call[p].pc = "done" <=> call[p].outcomes = <<"result">>
        /\ call[p].pc = "failed" <=> (call[p].outcomes # <<>> /\ call[p].outcomes # <<"result">>)
        /\ call[p].pc = "failed" => call[p].outcomes = <<call[p].error>>
        /\ call[p].notes > 0 <=> call[p].notedAt # {}
        /\ call[p].notedAt \subseteq
              (IF call[p].op = "initRepo" THEN {"clone"}
               ELSE IF call[p].op = "publish" THEN {"push"} ELSE {})

\* a notification leaves the call where it stands and the repository as it is
NotesOnlyObserve ==
    \A p \in CallSlots :
        (requests' = requests /\ call'[p].notes # call[p].notes) =>
            /\ call' = [call EXCEPT ![p].notes = call'[p].notes,
                                    ![p].notedAt = call'[p].notedAt]
            /\ UNCHANGED <<remoteRefs, remoteHead, localRefs, head, index, identity,
                           workdir, branchCfg, repoReady>>

OnTree(p) == ~Finished(p) /\ StepsOf(p) \ {"delay"} # {}

\* C16: at most one operation at a time is at work on the shadow tree: a request that
\* arrives while another is in progress runs none of its steps before the other ended.
C16_OneOperationOnTree ==
    \A p, q \in CallSlots : (p # q /\ OnTree(p)) => ~OnTree(q)

\* C23: whatever githubInfo.branch is, also when it is not set, the branch a publish
\* lists the files of, commits to and pushes is the branch the initRepo before it
\* made sure exists locally (master when none is set).
C23_PublishOnInitBranch ==
    \A p \in CallSlots :
        call[p].op = "publish" =>
            /\ "listFiles" \in StepsOf(p) => branchCfg = InitBranchName
            /\ "commit" \in StepsOf(p) => TargetBranch = InitBranchName

-----------------------------------------------------------------------------
(* Properties of the site service and the site form                        *)

LoadFailed(l) == l.state \in {"failed", "threw"}

\* C4: a loadTheme call whose requested theme failed to load while a theme was active
\* leaves that theme active and reports the error; when no theme was active, the
\* default theme is active afterwards; a failed load never replaces an active theme.
C4_FailedLoadKeepsActiveTheme ==
    LoadFailed(settled) =>
        /\ settled.activeAtFail # Null =>
             settled.activeAfter = settled.activeAtFail /\ settled.reported
        /\ (settled.activeAtFail = Null /\ settled.activeBefore = Null) =>
             settled.activeAfter = DEFAULT_THEME_NAME
        /\ settled.activeBefore # Null => settled.activeAfter = settled.activeBefore

C6_CustomEntryForThemeName ==
    (settled # NoLoad /\ loads = <<>>) =>
        site.custom[site.themeName].present


\* every loadTheme call made has settled
AllSettled == loads = <<>> /\ settled # NoLoad

\* C21: once every loadTheme call has settled, the active theme is the theme of the
\* call made last among those whose theme loaded, also when calls were made while
\* earlier ones were pending.
C21_LastIssuedLoadedThemeWins ==
    (AllSettled /\ settled.winner # "") => themeConfig = settled.winner

\* a theme chosen in the select failed to load
SelectedLoadFailed == settled.origin = "select" /\ LoadFailed(settled)

\* the user cancels the confirmation: no load starts, the form keeps its theme name,
\* the select shows the current theme name again
CancelKeepsTheme ==
    (modal.open /\ ~modal'.open /\ nLoads' = nLoads) =>
        /\ loads' = loads
        /\ form'.themeName = form.themeName
        /\ selectedThemeName' = form.themeName

\* C22: when handleSelect went ahead and the chosen theme failed to load, the select is
\* back on the theme that was current before, which is the active one once the load
\* has settled; cancelling the confirmation starts no load, leaves the form's theme
\* name alone and puts the select back on the current theme name.
C22_FailedSelectFallsBack ==
    /\ [](( AllSettled /\ ~modal.open /\ SelectedLoadFailed) =>
            (selectedThemeName = settled.current /\ selectedThemeName = themeConfig))
    /\ [][CancelKeepsTheme]_vars
-----------------------------------------------------------------------------
(* Properties of Page                                                      *)

\* C7: a string held in a markdown field, encoded by outputValues and decoded again by
\* setValues or by a new Page, is the string that was held, also when it is empty or
\* begins with 'markdown://'; the encoded value is the prefix followed by the string.
C7_MarkdownRoundTrip ==
    \A k \in markdownFieldNames :
        /\ (pagePc \in {"output", "reloaded"} /\ isString(held[k])) =>
              output[k] = Str(MARKDOWN_CONTENT_PREFIX \o held[k].s)
        /\ (pagePc = "reloaded" /\ isString(held[k])) => fieldVars[k] = held[k]

\* the text 'markdown://' itself was held, output and decoded
C7_Witness ==
    /\ pagePc = "reloaded"
    /\ held["body"] = Str(MARKDOWN_CONTENT_PREFIX)
    /\ fieldVars["body"] = Str(MARKDOWN_CONTENT_PREFIX)

\* C8: a value that is no string, given for a markdown field to the constructor or to
\* setValues, raises no error and is stored as it is; outputValues returns it as it is.
C8_NonStringUntouched ==
    /\ ~pageError
    /\ \A k \in markdownFieldNames :
        /\ (pagePc = "set" /\ supplied[k] \in NonStrings) => fieldVars[k] = supplied[k]
        /\ (pagePc \in {"output", "reloaded"} /\ held[k] \in NonStrings) =>
              output[k] = held[k]
        /\ (pagePc = "reloaded" /\ held[k] \in NonStrings) => fieldVars[k] = held[k]

\* a list whose element begins with 'markdown://' was given, stored and output
C8_Witness ==
    /\ pagePc = "output"
    /\ supplied["body"].t = "list"
    /\ held["body"] = supplied["body"]
    /\ output["body"] = supplied["body"]

-----------------------------------------------------------------------------
(* Properties of the article service                                       *)

\* C9: no two articles with different noteId have the same url, in every state reached
\* from saved articles with pairwise distinct urls by saveArticle, removeArticles,
\* togglePublished and updateArticleContent.
C9_UrlsPairwiseDistinct ==
    \A i, j \in 1..Len(articles) :
        articles[i].noteId # articles[j].noteId => articles[i].url # articles[j].url

\* C10 (as stated): the results of the getValidUrl(base) calls made against a collection
\* in which some article has the url base are pairwise distinct and each begins with base.
C10_ResultsPairwiseDistinct ==
    /\ \A i, j \in 1..Len(sameColl) : i # j => sameColl[i] # sameColl[j]
    /\ \A i \in 1..Len(sameColl) : IsPrefix(urlBase, sameColl[i])

\* C10 (amended): the results of successive getValidUrl(base) calls, base being the url
\* of some article, are pairwise distinct and each begins with base provided every
\* earlier result is the url of some article when the next call is made; calls made
\* against an unchanged collection all return the same url.
C10_RetainedResultsDistinct ==
    /\ \A i, j \in 1..Len(retained) : i # j => retained[i] # retained[j]
    /\ \A i \in 1..Len(retained) :
          IsPrefix(urlBase, retained[i]) /\ retained[i] # urlBase
    /\ \A i, j \in 1..Len(sameColl) : sameColl[i] = sameColl[j]

\* the first result was given to an article before the second call was made
C10_Witness ==
    /\ retained = << <<"a", "-", "1">>, <<"a", "-", "2">> >>
    /\ urlBase = <<"a">>

\* the url getValidUrl makes of baseUrl with the suffix n
Suffixed(baseUrl, n) == baseUrl \o <<"-">> \o IndexText(n)

\* C11: getValidUrl(candidate) returns the candidate itself only when it is not empty
\* and no article uses it; for an empty or used candidate it returns candidate-n, n the
\* first suffix from 1 on that no article uses.
C11_ValidUrlResult ==
    urlFresh =>
        /\ urlResult = urlBase => (urlBase # <<>> /\ ~InUse(articles, urlBase))
        /\ (urlBase = <<>> \/ InUse(articles, urlBase)) =>
              \E n \in 1..(Len(articles) + 1) :
                  /\ urlResult = Suffixed(urlBase, n)
                  /\ ~InUse(articles, urlResult)
                  /\ \A m \in 1..(n - 1) : InUse(articles, Suffixed(urlBase, m))

\* C12: after every completed operation of the service (removeArticles, togglePublished,
\* saveArticle, updateArticleContent, loadArticle) the articles the repository holds are
\* the whole in-memory collection.
C12_SnapshotIsCollection ==
    artPc = "ready" => persistedArticles = articles


\* what a togglePublished(status) call has to do to the collection and the selection
ToggleEffect(status) ==
    LET target == (status = "published")
        sel == Range(selectedArticles)
    IN /\ Len(articles') = Len(articles)
       /\ \A i \in 1..Len(articles) :
            LET a == articles[i] IN
            /\ articles'[i] = [a EXCEPT !.published = articles'[i].published]
            /\ (a.noteId \in sel /\ a.published # target) =>
                  (articles'[i].published = target /\ a.noteId \notin Range(selectedArticles'))
            /\ (a.noteId \in sel /\ a.published = target) =>
                  (articles'[i] = a /\ a.noteId \in Range(selectedArticles'))
            /\ a.noteId \notin sel =>
                  (articles'[i] = a /\ a.noteId \notin Range(selectedArticles'))
       /\ persistedArticles' = articles'

\* C24: togglePublished(status) sets the flag on exactly the selected articles whose
\* flag differs from the target and takes exactly those out of the selection; selected
\* articles that have the target status stay selected and unchanged; articles that are
\* not selected keep their flag and stay in the collection; the collection is saved.
C24_TogglePublishedFrame ==
    [][\A status \in {"published", "unpublished"} :
          TogglePublished(status) => ToggleEffect(status)]_vars

\* n1 was published by a togglePublished('published') call that found n1 and the
\* already published n2 selected; n3 was not selected
C24_Witness ==
    /\ Len(articles) = 3
    /\ articles[1].published /\ articles[2].published /\ ~articles[3].published
    /\ selectedArticles = <<"n2">>
    /\ persistedArticles = articles
    /\ artOps = 3
-----------------------------------------------------------------------------
(* ----------------------- properties: fetchAllData ---------------------- *)

RECURSIVE Concat(_)
\* the items of the pages of a log, in page order
Concat(log) == IF log = <<>> THEN <<>> ELSE log[1].items \o Concat(Tail(log))

\* a fetched page reported has_more false
LastPageFetched ==
    \E i \in 1..Len(fetchLog) : fetchLog[i].state = "resolved" /\ ~fetchLog[i].has_more

FetchContract ==
    \* pages 1, 2, 3, ... in order, each with the caller's query
    /\ \A i \in 1..Len(fetchLog) :
          /\ fetchLog[i].req.page = i
          /\ fetchLog[i].req.fields = query.fields
    \* one at a time, and none after a page whose has_more is false or that failed
    /\ \A i \in 1..(Len(fetchLog) - 1) :
          fetchLog[i].state = "resolved" /\ fetchLog[i].has_more
    \* it returns only when a page reported has_more false, and then all the items
    /\ fetchPc = "returned" <=> fetchReturn.returned
    /\ fetchReturn.returned =>
          /\ LastPageFetched
          /\ fetchReturn.value = Concat(fetchLog)
    \* a failed page fetch fails the call, which then has returned nothing
    /\ fetchPc = "failed" <=>
          (fetchLog # <<>> /\ fetchLog[Len(fetchLog)].state = "rejected")
    /\ fetchPc = "failed" => ~fetchReturn.returned

\* C17: fetchAllData requests pages 1, 2, 3, ... one at a time with the caller's query,
\* requests none after the first page whose has_more is false, returns the items of all
\* fetched pages in page order, returns exactly when a fetched page reported has_more
\* false, and fails as a whole, returning nothing, when a page fetch fails.
C17_FetchAllPagesInOrder ==
    /\ []FetchContract
    /\ (LastPageFetched ~> fetchPc = "returned")

C17_Witness ==
    /\ fetchPc = "returned"
    /\ Len(fetchLog) = 3
    /\ query.page = CallerPage
    /\ fetchReturn.value = <<"a", "b">>

-----------------------------------------------------------------------------
(* ----------------------- properties: generateSite ---------------------- *)

\* the steps of a request in which outputPages was started
OutputStarted(r) == \E i \in 1..Len(r.steps) : r.steps[i] = "outputPages"

\* C18: in every generateSite request, outputPages is started only after init has
\* loaded theme, site and articles without failing; after a failed init it is never
\* started; a failure of either step is what the caller receives, and the caller
\* receives success only when both steps have succeeded.
C18_InitThenOutputOrFail ==
    \A i \in 1..Len(genLog) :
        LET r == genLog[i] IN
        /\ OutputStarted(r) =>
              /\ IsPrefix(InitSteps \o <<"outputPages">>, r.steps)
              /\ r.failedAt # "init"
        /\ r.failedAt = "init" => ~OutputStarted(r)
        /\ r.failedAt # "none" => (r.error \in GenErrors /\ r.reply = r.error)
        /\ r.reply = "resolved" =>
              (r.failedAt = "none" /\ r.steps = InitSteps \o <<"outputPages", "written">>)
        /\ (i = Len(genLog) /\ r.reply # "none") => genReply = r.reply

C18_Witness ==
    /\ Len(genLog) = 3
    /\ genLog[1].failedAt = "init"
    /\ genLog[2].failedAt = "outputPages"
    /\ genLog[3].reply = "resolved"

-----------------------------------------------------------------------------
(* ------------------------ properties: Page.fields ---------------------- *)

Names(list) == {list[i].name : i \in 1..Len(list)}

\* C19: the field list of the page named index never contains a field named url,
\* whatever the theme declares for it; the field list of every other page starts with
\* the url field.
C19_IndexHasNoUrlOthersStartWithUrl ==
    fields.built =>
        /\ pageName = INDEX_PAGE_NAME => "url" \notin Names(fields.list)
        /\ pageName # INDEX_PAGE_NAME => (fields.list # <<>> /\ fields.list[1] = UrlField)

\* C20: the field list of the page named article has the url field first, then the
\* predefined dateFormat field with default "YYYY-MM-DD HH:mm", then what the theme
\* declares, in the theme's order; a dateFormat field of the theme comes after the
\* predefined one and does not replace it.
C20_ArticleDateFormatPredefinedFirst ==
    (fields.built /\ pageName = ARTICLE_PAGE_NAME) =>
        /\ Len(fields.list) >= 2
        /\ fields.list[1].name = "url"
        /\ fields.list[2].name = "dateFormat"
        /\ fields.list[2].defaultValue = "YYYY-MM-DD HH:mm"
        /\ SubSeq(fields.list, 3, Len(fields.list)) = compact(themePages[pageName].list)

C20_Witness ==
    /\ fields.built
    /\ pageName = ARTICLE_PAGE_NAME
    /\ themePages[pageName].declared
    /\ Len(themePages[pageName].list) = MaxThemeFields
    /\ themePages[pageName].list[1] = ThemeField("dateFormat")

-----------------------------------------------------------------------------
(* ----------------------- properties: useAppWarning --------------------- *)

\* warning is on the list of effect
Warned(effect, warning) == <<effect, warning>> \in warnings.list

\* the warnings are what the form's state asks for
WarningsFollowForm ==
    warnPc = "watching" =>
        \A effect \in FORBIDDEN :
            /\ Warned(effect, MODIFICATION_WARNING) <=> isModifiedRef
            /\ Warned(effect, INVALID_WARNING) <=> ~isValidRef

\* the setWarning calls of a step are about a warning whose own condition changed
OwnConditionOnly ==
    warnPc = "watching" =>
        \A i \in (Len(warnings.log) + 1)..Len(warnings'.log) :
            LET c == warnings'.log[i] IN
            /\ c.warning = MODIFICATION_WARNING => isModifiedRef' # isModifiedRef
            /\ c.warning = INVALID_WARNING => isValidRef' # isValidRef

=============================================================================
